---- MODULE Spec2Model ----
(***************************************************************************)
(* Model of src/trading_bot.py: the command line trading bot for Binance   *)
(* Futures.  The state is the position of the single thread of control     *)
(* (pc), the locals of the running order workflow (wf), the calls made on  *)
(* the exchange client, the lines printed to the operator and the records  *)
(* written to the log during the current workflow.                         *)
(***************************************************************************)
EXTENDS Integers, Sequences, FiniteSets, TLC

\* ------------------------------------------------------------------ bounds
\* Menu selections, other than Exit, that one session may make.
MaxActions == 2
\* Highest last-trade price, in whole units, that the exchange ticker returns.
MaxTicker == 3

\* ------------------------------------------------------------ Python values
\* Python's None where a text (flag, environment variable) is absent.
NoFlag == "<None>"
\* Floats are counted in hundredths; NaN compares False with everything.
Num(n) == [kind |-> "num", v |-> n]
NaN == [kind |-> "nan", v |-> 0]
NoneVal == [kind |-> "none", v |-> 0]

\* str.strip() on the texts the operator can type.
Strip(t) ==
  CASE t = " " -> ""
    [] t = " y " -> "y"
    [] t = " BTCUSDT " -> "BTCUSDT"
    [] OTHER -> t

\* str.upper() on the texts the operator can type.
Upper(t) ==
  CASE t = "btcusdt" -> "BTCUSDT"
    [] t = "buy" -> "BUY"
    [] t = "Sell" -> "SELL"
    [] t = "hold" -> "HOLD"
    [] OTHER -> t

\* An answer taken as typed, without lower-casing it.
Lower_identity(t) == t

\* str.lower() on the answers to the confirmation prompt.
Lower(t) ==
  CASE t = "Y" -> "y"
    [] t = "N" -> "n"
    [] t = "YES" -> "yes"
    [] OTHER -> t

\* float(text): ok is FALSE where Python raises ValueError.
ParseFloat(t) ==
  CASE t = "-1" -> [ok |-> TRUE, val |-> Num(-100)]
    [] t = "0" -> [ok |-> TRUE, val |-> Num(0)]
    [] t = "0.01" -> [ok |-> TRUE, val |-> Num(1)]
    [] t = "1" -> [ok |-> TRUE, val |-> Num(100)]
    [] t = "2" -> [ok |-> TRUE, val |-> Num(200)]
    [] t = "3" -> [ok |-> TRUE, val |-> Num(300)]
    [] t = "nan" -> [ok |-> TRUE, val |-> NaN]
    [] OTHER -> [ok |-> FALSE, val |-> NoneVal]

\* a <= b on floats (False when either side is NaN).
FloatLE(a, b) == a.kind = "num" /\ b.kind = "num" /\ a.v <= b.v
\* a >= b on floats.
FloatGE(a, b) == a.kind = "num" /\ b.kind = "num" /\ a.v >= b.v

\* bool(x) of an optional float: None and 0.0 are falsy, NaN is truthy.
TruthyFloat(x) == x.kind = "nan" \/ (x.kind = "num" /\ x.v # 0)
\* bool(x) of an optional text: None and "" are falsy.
TruthyText(t) == t # NoFlag /\ t # ""

\* ------------------------------------------------- constants of the client
ORDER_TYPE_MARKET == "MARKET"
ORDER_TYPE_LIMIT == "LIMIT"
TIME_IN_FORCE_GTC == "GTC"

\* -------------------------------------------------------------- the inputs
SymbolTexts == {"", " ", "BTCUSDT", "btcusdt"}
SideTexts == {"BUY", "buy", "Sell", "hold"}
NumTexts == {"", "abc", "-1", "0", "0.01", "1", "2", "nan"}
ConfirmTexts == {"y", "Y", " y ", "n", "", "yes"}
ChoiceTexts == {"1", "2", "3", "4", "5", "6", "7"}
KeyTexts == {"", "key"}

\* What the exchange answers to a call: a value, or the exception it raises.
TickerResponses ==
  {[kind |-> "ok", price |-> Num(100 * p), msg |-> ""] : p \in 1..MaxTicker}
  \cup {[kind |-> "BinanceAPIException", price |-> NoneVal, msg |-> "Invalid symbol."],
        [kind |-> "ConnectionError", price |-> NoneVal, msg |-> "timed out"]}
SubmitResponses ==
  {[kind |-> "order", msg |-> ""],
   [kind |-> "BinanceOrderException", msg |-> "Order would immediately trigger."],
   [kind |-> "BinanceAPIException", msg |-> "Margin is insufficient."],
   [kind |-> "ConnectionError", msg |-> "timed out"]}
ReadResponses ==
  {[kind |-> "ok", msg |-> ""],
   [kind |-> "empty", msg |-> ""],
   [kind |-> "BinanceAPIException", msg |-> "Invalid API-key."],
   [kind |-> "ConnectionError", msg |-> "timed out"]}

\* ------------------------------------------------------- output and logging
Msg(kind, text) == [kind |-> kind, text |-> text]
Info(what) == [level |-> "INFO", what |-> what]
Error(what) == [level |-> "ERROR", what |-> what]

\* One call on the exchange client.
Call(op, params) == [op |-> op, params |-> params]
\* What a method of the bot did: the client calls it made, the records it
\* logged, whether it raised and with what message, and the value it returned.
Effect(c, l, raised, err, val) ==
  [calls |-> c, log |-> l, raised |-> raised, err |-> err, val |-> val]

\* ------------------------------------------------------------- TradingBot
\* test_connection letting the failure of the account read escape.
test_connection_raising(resp) ==
  IF resp.kind \in {"ok", "empty"}
  THEN Effect(<<Call("futures_account", << >>)>>,
              <<Info("connected"), Info("balance")>>, FALSE, "", TRUE)
  ELSE Effect(<<Call("futures_account", << >>)>>,
              <<Error("connect_failed")>>, TRUE, resp.msg, FALSE)

\* test_connection: one account read; a failure is logged, never raised.
test_connection(resp) ==
  IF resp.kind \in {"ok", "empty"}
  THEN Effect(<<Call("futures_account", << >>)>>,
              <<Info("connected"), Info("balance")>>, FALSE, "", TRUE)
  ELSE Effect(<<Call("futures_account", << >>)>>,
              <<Error("connect_failed")>>, FALSE, "", FALSE)

\* TradingBot.__init__: build the client (which may raise), then test the
\* connection.
TradingBot_init(clientOK, resp) ==
  IF ~clientOK
  THEN Effect(<< >>, << >>, TRUE, "client", FALSE)
  ELSE test_connection(resp)

\* get_account_info logging the exception without re-raising it.
get_account_info_silent(resp) ==
  IF resp.kind \in {"ok", "empty"}
  THEN Effect(<<Call("futures_account", << >>)>>, <<Info("account")>>,
              FALSE, "", resp.kind)
  ELSE Effect(<<Call("futures_account", << >>)>>,
              <<Error(IF resp.kind = "BinanceAPIException"
                      THEN "account_api_error" ELSE "account_unexpected")>>,
              FALSE, "", "empty")

\* get_account_info: one account read; an exception is logged and re-raised.
get_account_info(resp) ==
  IF resp.kind \in {"ok", "empty"}
  THEN Effect(<<Call("futures_account", << >>)>>, <<Info("account")>>,
              FALSE, "", resp.kind)
  ELSE Effect(<<Call("futures_account", << >>)>>,
              <<Error(IF resp.kind = "BinanceAPIException"
                      THEN "account_api_error" ELSE "account_unexpected")>>,
              TRUE, resp.msg, resp.kind)

\* get_symbol_info: read the exchange metadata and require the symbol to be
\* listed with status TRADING.  resp is the answer to the read: kind "ok"
\* with info, a sequence of [symbol, status], or the exception raised.  A
\* BinanceAPIException is logged by its own handler, every other exception
\* (the two ValueErrors of the method included) by the general one; all are
\* re-raised.  No menu and no line of main() calls this method.
get_symbol_info(symbol, resp) ==
  LET info == resp.info
      found == {i \in 1..Len(info) : info[i].symbol = Upper(symbol)}
      c == <<Call("futures_exchange_info", << >>)>>
  IN IF resp.kind = "BinanceAPIException"
     THEN Effect(c, <<Error("symbol_api_error")>>, TRUE, resp.msg, FALSE)
     ELSE IF resp.kind # "ok"
     THEN Effect(c, <<Error("symbol_invalid")>>, TRUE, resp.msg, FALSE)
     ELSE IF found = {}
     THEN Effect(c, <<Error("symbol_invalid")>>, TRUE, "Symbol not found", FALSE)
     ELSE LET first == CHOOSE i \in found : \A j \in found : i <= j
          IN IF info[first].status # "TRADING"
             THEN Effect(c, <<Error("symbol_invalid")>>, TRUE,
                         "Symbol is not available for trading", FALSE)
             ELSE Effect(c, <<Info("symbol_valid")>>, FALSE, "", TRUE)

\* get_current_price with the exception swallowed instead of re-raised.
get_current_price_swallowed(symbol, resp) ==
  LET c == <<Call("futures_symbol_ticker", [symbol |-> Upper(symbol)])>>
  IN IF resp.kind = "ok"
     THEN Effect(c, <<Info("price")>>, FALSE, "", resp.price)
     ELSE Effect(c, <<Error("price_error")>>, FALSE, "", NoneVal)

\* get_current_price: one ticker read for the upper-cased symbol.
get_current_price(symbol, resp) ==
  LET c == <<Call("futures_symbol_ticker", [symbol |-> Upper(symbol)])>>
  IN IF resp.kind = "ok"
     THEN Effect(c, <<Info("price")>>, FALSE, "", resp.price)
     ELSE Effect(c, <<Error("price_error")>>, TRUE, resp.msg, NoneVal)

\* The records an order method logs after the client answered.
OrderLog(resp) ==
  CASE resp.kind = "order" -> <<Info("placed"), Info("order_id"), Info("status")>>
    [] resp.kind = "BinanceOrderException" -> <<Error("order_error")>>
    [] resp.kind = "BinanceAPIException" -> <<Error("api_error")>>
    [] OTHER -> <<Error("unexpected_error")>>

\* The wire parameters of a market order.
MarketParams(symbol, side, quantity) ==
  [symbol |-> Upper(symbol), side |-> Upper(side), type |-> ORDER_TYPE_MARKET,
   quantity |-> quantity]

\* The wire parameters of a limit order.
LimitParams(symbol, side, quantity, price) ==
  [symbol |-> Upper(symbol), side |-> Upper(side), type |-> ORDER_TYPE_LIMIT,
   quantity |-> quantity, price |-> price, timeInForce |-> TIME_IN_FORCE_GTC]

\* The stop-limit parameters with the two prices exchanged.
StopLimitParams_swapped(symbol, side, quantity, stop_price, limit_price) ==
  [symbol |-> Upper(symbol), side |-> Upper(side), type |-> "STOP",
   quantity |-> quantity, stopPrice |-> limit_price, price |-> stop_price,
   timeInForce |-> "GTC"]

\* The wire parameters of a stop-limit order.
StopLimitParams(symbol, side, quantity, stop_price, limit_price) ==
  [symbol |-> Upper(symbol), side |-> Upper(side), type |-> "STOP",
   quantity |-> quantity, stopPrice |-> stop_price, price |-> limit_price,
   timeInForce |-> "GTC"]

\* An order method that raises an error of its own in place of the exchange's.
PlaceOrder_generic(params, resp) ==
  Effect(<<Call("futures_create_order", params)>>,
         <<Info("placing")>> \o OrderLog(resp),
         resp.kind # "order", IF resp.kind = "order" THEN "" ELSE "Order failed",
         resp.kind)

\* An order method: log, one futures_create_order, log the answer, return the
\* order or re-raise the exception.
PlaceOrder(params, resp) ==
  Effect(<<Call("futures_create_order", params)>>,
         <<Info("placing")>> \o OrderLog(resp),
         resp.kind # "order", resp.msg, resp.kind)

place_market_order(symbol, side, quantity, resp) ==
  PlaceOrder(MarketParams(symbol, side, quantity), resp)

place_limit_order(symbol, side, quantity, price, resp) ==
  PlaceOrder(LimitParams(symbol, side, quantity, price), resp)

place_stop_limit_order(symbol, side, quantity, stop_price, limit_price, resp) ==
  LET e == PlaceOrder(StopLimitParams(symbol, side, quantity, stop_price, limit_price), resp)
  IN [e EXCEPT !.log = <<Info("placing"), Info("stop_limit_prices")>> \o OrderLog(resp)]

\* get_order_status: one read of the order, whose status is then logged; an
\* exception is logged and re-raised, the KeyError of an answer without a
\* status ("empty") included.  No menu and no line of main() calls this
\* method.
get_order_status(symbol, order_id, resp) ==
  LET c == <<Call("futures_get_order",
                  [symbol |-> Upper(symbol), orderId |-> order_id])>>
  IN IF resp.kind = "ok"
     THEN Effect(c, <<Info("order_status")>>, FALSE, "", resp.kind)
     ELSE IF resp.kind = "empty"
     THEN Effect(c, <<Error("order_status_error")>>, TRUE, "'status'", "KeyError")
     ELSE Effect(c, <<Error("order_status_error")>>, TRUE, resp.msg, resp.kind)

\* cancel_order: one cancel call; an exception is logged and re-raised.  No
\* menu and no line of main() calls this method.
cancel_order(symbol, order_id, resp) ==
  LET c == <<Call("futures_cancel_order",
                  [symbol |-> Upper(symbol), orderId |-> order_id])>>
  IN IF resp.kind \in {"ok", "empty"}
     THEN Effect(c, <<Info("order_cancelled")>>, FALSE, "", resp.kind)
     ELSE Effect(c, <<Error("cancel_error")>>, TRUE, resp.msg, resp.kind)

\* get_open_orders without a symbol: one open-order read.
get_open_orders(resp) ==
  LET c == <<Call("futures_get_open_orders", << >>)>>
  IN IF resp.kind \in {"ok", "empty"}
     THEN Effect(c, <<Info("open_orders")>>, FALSE, "", resp.kind)
     ELSE Effect(c, <<Error("open_orders_error")>>, TRUE, resp.msg, resp.kind)

\* ----------------------------------------------------------- TradingBotCLI
\* validate_inputs comparing the side as typed, without upper-casing it.
validate_inputs_case_sensitive(symbol, side, quantity) ==
  LET q == ParseFloat(quantity)
      bad(msg) == [ok |-> FALSE, err |-> msg, symbol |-> NoFlag, side |-> NoFlag,
                   qty |-> NoneVal]
  IN IF symbol = "" THEN bad("Symbol is required")
     ELSE IF side \notin {"BUY", "SELL"} THEN bad("Side must be 'BUY' or 'SELL'")
     ELSE IF ~q.ok \/ FloatLE(q.val, Num(0)) THEN bad("Invalid quantity format")
     ELSE [ok |-> TRUE, err |-> "", symbol |-> Upper(symbol), side |-> Upper(side),
           qty |-> q.val]

\* validate_inputs without the test that the quantity is above zero.
validate_inputs_unsigned(symbol, side, quantity) ==
  LET q == ParseFloat(quantity)
      bad(msg) == [ok |-> FALSE, err |-> msg, symbol |-> NoFlag, side |-> NoFlag,
                   qty |-> NoneVal]
  IN IF symbol = "" THEN bad("Symbol is required")
     ELSE IF Upper(side) \notin {"BUY", "SELL"} THEN bad("Side must be 'BUY' or 'SELL'")
     ELSE IF ~q.ok THEN bad("Invalid quantity format")
     ELSE [ok |-> TRUE, err |-> "", symbol |-> Upper(symbol), side |-> Upper(side),
           qty |-> q.val]

\* validate_inputs: the common checks of the three order menus.
validate_inputs(symbol, side, quantity) ==
  LET q == ParseFloat(quantity)
      bad(msg) == [ok |-> FALSE, err |-> msg, symbol |-> NoFlag, side |-> NoFlag,
                   qty |-> NoneVal]
  IN IF symbol = "" THEN bad("Symbol is required")
     ELSE IF Upper(side) \notin {"BUY", "SELL"} THEN bad("Side must be 'BUY' or 'SELL'")
     ELSE IF ~q.ok \/ FloatLE(q.val, Num(0)) THEN bad("Invalid quantity format")
     ELSE [ok |-> TRUE, err |-> "", symbol |-> Upper(symbol), side |-> Upper(side),
           qty |-> q.val]

\* The price check of the limit and stop-limit menus: every price text parses
\* and none is <= 0.
ParsePrices(texts) ==
  \A i \in 1..Len(texts) :
    ParseFloat(texts[i]).ok /\ ~FloatLE(ParseFloat(texts[i]).val, Num(0))

VARIABLES pc, mode, creds, bot, connTest, args, wf, calls, out, log, confirms, nActions

vars == <<pc, mode, creds, bot, connTest, args, wf, calls, out, log, confirms, nActions>>

\* The locals of an order menu before anything was typed.
NoWorkflow ==
  [type |-> NoFlag, symbol |-> NoFlag, side |-> NoFlag, quantity |-> NoFlag,
   price |-> NoFlag, stop_price |-> NoFlag,
   sym |-> NoFlag, sd |-> NoFlag, qty |-> NoneVal, limit_px |-> NoneVal,
   stop_px |-> NoneVal, current_price |-> NoneVal, answer |-> NoFlag,
   confirm |-> NoFlag]

\* The parsed command line and environment before main() ran.
NoArgs ==
  [env_key |-> NoFlag, env_secret |-> NoFlag, symbol |-> NoFlag, side |-> NoFlag,
   type |-> NoFlag, quantity |-> NoneVal, price |-> NoneVal, stop_price |-> NoneVal]

\* The locals api_key and api_secret of setup_bot before it ran.
NoCreds == [api_key |-> NoFlag, api_secret |-> NoFlag]

Init ==
  /\ pc = "main"
  /\ mode = "none"
  /\ creds = NoCreds
  /\ bot = "none"
  /\ connTest = "none"
  /\ args = NoArgs
  /\ wf = NoWorkflow
  /\ calls = << >>
  /\ out = << >>
  /\ log = << >>
  /\ confirms = 0
  /\ nActions = 0

\* ------------------------------------------------------------------ main()
FlagSymbols == {NoFlag, "", "BTCUSDT", "btcusdt"}
FlagSides == {NoFlag, "BUY", "SELL", "buy"}
FlagTypes == {NoFlag, "MARKET", "LIMIT", "STOP_LIMIT"}
FlagQuantities == {NoFlag, "abc", "-1", "0", "1", "nan"}
FlagPrices == {NoFlag, "0", "2"}
FlagStopPrices == {NoFlag, "1", "3"}
EnvTexts == {NoFlag, "key"}

\* argparse type=float on an optional flag: None when the flag is absent.
FlagFloat(t) == IF t = NoFlag THEN NoneVal ELSE ParseFloat(t).val
\* parse_args() exits with a usage error on a value outside the choices or on
\* a text float() rejects.
ArgparseRejects(side, type, q, p, s) ==
  \/ side \notin {NoFlag, "BUY", "SELL"}
  \/ type \notin {NoFlag, "MARKET", "LIMIT", "STOP_LIMIT"}
  \/ \E t \in {q, p, s} : t # NoFlag /\ ~ParseFloat(t).ok

\* The condition of line 533 had it also asked for the prices the order type
\* needs.
AllFlags_typed(a) ==
  /\ TruthyText(a.env_key) /\ TruthyText(a.env_secret)
  /\ TruthyText(a.symbol) /\ TruthyText(a.side) /\ TruthyText(a.type)
  /\ TruthyFloat(a.quantity)
  /\ a.type \in {"LIMIT", "STOP_LIMIT"} => TruthyFloat(a.price)
  /\ a.type = "STOP_LIMIT" => TruthyFloat(a.stop_price)

\* The condition of line 533: credentials and the four common flags are truthy.
AllFlags(a) ==
  /\ TruthyText(a.env_key) /\ TruthyText(a.env_secret)
  /\ TruthyText(a.symbol) /\ TruthyText(a.side) /\ TruthyText(a.type)
  /\ TruthyFloat(a.quantity)

\* One start of the program: the two environment variables and the six flags
\* as texts, NoFlag where one is not given.
Line(ek, es, sym, side, type, q, p, s) ==
  [env_key |-> ek, env_secret |-> es, symbol |-> sym, side |-> side,
   type |-> type, quantity |-> q, price |-> p, stop_price |-> s]
\* The starts that give both credentials and the four common flags, each
\* with a value that is not empty and not zero.
FullLines ==
  {Line("key", "key", sym, side, type, q, p, s) :
     sym \in FlagSymbols \ {NoFlag, ""}, side \in FlagSides \ {NoFlag},
     type \in FlagTypes \ {NoFlag}, q \in FlagQuantities \ {NoFlag, "0"},
     p \in FlagPrices, s \in FlagStopPrices}
\* The starts that leave something out: no flag at all, one flag only, and
\* a full start with one credential or one common flag absent, empty or zero.
PartialLines ==
  {Line("key", "key", NoFlag, NoFlag, NoFlag, NoFlag, NoFlag, NoFlag),
   Line("key", NoFlag, "btcusdt", NoFlag, NoFlag, NoFlag, NoFlag, NoFlag),
   Line(NoFlag, "key", "BTCUSDT", "BUY", "MARKET", "1", NoFlag, NoFlag),
   Line("key", NoFlag, "BTCUSDT", "BUY", "MARKET", "1", NoFlag, NoFlag),
   Line("key", "key", "", "BUY", "LIMIT", "1", "2", NoFlag),
   Line("key", "key", "BTCUSDT", NoFlag, "MARKET", "1", NoFlag, NoFlag),
   Line("key", "key", "BTCUSDT", "SELL", NoFlag, "1", NoFlag, NoFlag),
   Line("key", "key", "BTCUSDT", "SELL", "STOP_LIMIT", "0", "2", "1")}
\* The starts of the program the model runs.
CommandLines == FullLines \cup PartialLines

\* main() up to the choice between the flag-driven path and the menu.
Main ==
  /\ pc = "main"
  /\ \E l \in CommandLines :
       IF ArgparseRejects(l.side, l.type, l.quantity, l.price, l.stop_price)
       THEN /\ pc' = "exit"
            /\ out' = <<Msg("usage", "")>>
            /\ UNCHANGED <<mode, args>>
       ELSE LET a == [env_key |-> l.env_key, env_secret |-> l.env_secret,
                      symbol |-> l.symbol, side |-> l.side, type |-> l.type,
                      quantity |-> FlagFloat(l.quantity),
                      price |-> FlagFloat(l.price),
                      stop_price |-> FlagFloat(l.stop_price)]
            IN /\ args' = a
               /\ mode' = IF AllFlags(a) THEN "batch" ELSE "interactive"
               /\ pc' = IF AllFlags(a) THEN "batch" ELSE "setup"
               /\ out' = << >>
  /\ UNCHANGED <<creds, bot, connTest, wf, calls, log, confirms, nActions>>

\* The Namespace had the parser also defined the two credentials.
NamespaceAttrs_with_credentials ==
  {"symbol", "side", "type", "quantity", "price", "stop_price", "api_key",
   "api_secret"}

\* The attributes of the Namespace parse_args() returns: one per add_argument.
NamespaceAttrs == {"symbol", "side", "type", "quantity", "price", "stop_price"}

\* What the flag-driven path did: client calls, log records, printed lines,
\* and whether the bot was built and its connection test passed.
BatchResult(c, l, o, b, t) == [calls |-> c, log |-> l, out |-> o, bot |-> b, connTest |-> t]
\* display_order_details after an order method returned, or the printed error.
BatchOrder(b, t, pre, e) ==
  BatchResult(b.calls \o pre.calls \o e.calls, b.log \o e.log,
              pre.out \o IF e.raised THEN <<Msg("error", e.err)>>
                         ELSE <<Msg("details", "")>>,
              "ready", t)

\* The try block of lines 534-563.
BatchTry(a, clientOK, conn, ticker, resp) ==
  IF ~({"api_key", "api_secret"} \subseteq NamespaceAttrs)
  THEN BatchResult(<< >>, << >>, <<Msg("error", "AttributeError")>>, "none", "none")
  ELSE
    LET b == TradingBot_init(clientOK, conn)
        t == IF b.val THEN "ok" ELSE "failed"
        none == [calls |-> << >>, out |-> << >>]
        stop(o) == BatchResult(b.calls, b.log, o, "ready", t)
    IN IF b.raised
       THEN BatchResult(<< >>, << >>, <<Msg("error", b.err)>>, "none", "none")
       ELSE CASE a.type = "MARKET" ->
                   BatchOrder(b, t, none,
                              place_market_order(a.symbol, a.side, a.quantity, resp))
              [] a.type = "LIMIT" ->
                   IF ~TruthyFloat(a.price)
                   THEN stop(<<Msg("price_required", "")>>)
                   ELSE BatchOrder(b, t, none,
                          place_limit_order(a.symbol, a.side, a.quantity, a.price, resp))
              [] OTHER ->
                   IF ~TruthyFloat(a.price) \/ ~TruthyFloat(a.stop_price)
                   THEN stop(<<Msg("prices_required", "")>>)
                   ELSE
                     LET tc == <<Call("futures_symbol_ticker",
                                      [symbol |-> Upper(a.symbol)])>>
                         seen == [calls |-> tc, out |-> <<Msg("price", "")>>]
                         halt(o) == BatchResult(b.calls \o tc, b.log, o, "ready", t)
                     IN IF ticker.kind # "ok"
                        THEN halt(<<Msg("error", ticker.msg)>>)
                        ELSE IF a.side = "BUY" /\ FloatLE(a.stop_price, ticker.price)
                        THEN halt(<<Msg("price", ""), Msg("stop_above", "")>>)
                        ELSE IF a.side = "SELL" /\ FloatGE(a.stop_price, ticker.price)
                        THEN halt(<<Msg("price", ""), Msg("stop_below", "")>>)
                        ELSE BatchOrder(b, t, seen,
                               place_stop_limit_order(a.symbol, a.side, a.quantity,
                                                      a.stop_price, a.price, resp))

\* The flag-driven path of main(): runs once and the process ends.
BatchRun ==
  /\ pc = "batch"
  /\ \E clientOK \in BOOLEAN, conn \in ReadResponses, ticker \in TickerResponses,
        resp \in SubmitResponses :
       LET r == BatchTry(args, clientOK, conn, ticker, resp)
       IN /\ calls' = r.calls
          /\ log' = r.log
          /\ out' = r.out
          /\ bot' = r.bot
          /\ connTest' = r.connTest
  /\ pc' = "exit"
  /\ UNCHANGED <<mode, creds, args, wf, confirms, nActions>>

\* ------------------------------------------------------- interactive session
\* The credential test of setup_bot had it stopped only when both are empty.
CredentialsMissing_both(api_key, api_secret) == api_key = "" /\ api_secret = ""

\* The credential test of setup_bot: either text is empty.
CredentialsMissing(api_key, api_secret) == api_key = "" \/ api_secret = ""

\* setup_bot, called first by main_menu: read the credentials and build the
\* bot; main_menu returns when setup_bot reports failure, and otherwise
\* enters its loop (pc = "done": the menu is about to be printed).
SetupBot ==
  /\ pc = "setup"
  /\ \E k \in KeyTexts \cup {" "}, sec \in KeyTexts \cup {" "},
        clientOK \in BOOLEAN, conn \in ReadResponses :
       LET api_key == Strip(k)
           api_secret == Strip(sec)
           b == TradingBot_init(clientOK, conn)
       IN /\ creds' = [api_key |-> api_key, api_secret |-> api_secret]
          /\ IF CredentialsMissing(api_key, api_secret)
             THEN /\ out' = <<Msg("credentials_required", "")>>
                  /\ pc' = "exit"
                  /\ UNCHANGED <<bot, connTest, calls, log>>
             ELSE IF b.raised
             THEN /\ out' = <<Msg("init_failed", b.err)>>
                  /\ pc' = "exit"
                  /\ calls' = b.calls
                  /\ log' = b.log
                  /\ UNCHANGED <<bot, connTest>>
             ELSE /\ bot' = "ready"
                  /\ connTest' = IF b.val THEN "ok" ELSE "failed"
                  /\ calls' = b.calls
                  /\ log' = b.log
                  /\ out' = << >>
                  /\ pc' = "done"
  /\ UNCHANGED <<mode, args, wf, confirms, nActions>>

\* A menu handler starts with nothing called, printed or logged.
Fresh(type, symbol, side, quantity, price, stop_price) ==
  [NoWorkflow EXCEPT !.type = type, !.symbol = symbol, !.side = side,
                     !.quantity = quantity, !.price = price,
                     !.stop_price = stop_price]

\* The order menus up to the reference-price fetch: read the (stripped)
\* inputs, validate them and parse the prices the order type needs.  w holds
\* the stripped inputs; pricesOK is the outcome of the menu's price check.
OrderInputs(w, pricesOK, limit_px, stop_px) ==
  LET v == validate_inputs(w.symbol, w.side, w.quantity)
  IN /\ calls' = << >>
     /\ log' = << >>
     /\ confirms' = 0
     /\ nActions' = nActions + 1
     /\ IF ~v.ok
        THEN /\ wf' = w
             /\ out' = <<Msg("error", v.err)>>
             /\ pc' = "done"
        ELSE IF ~pricesOK
        THEN /\ wf' = [w EXCEPT !.sym = v.symbol, !.sd = v.side, !.qty = v.qty]
             /\ out' = <<Msg("error", "Invalid price format")>>
             /\ pc' = "done"
        ELSE /\ wf' = [w EXCEPT !.sym = v.symbol, !.sd = v.side, !.qty = v.qty,
                                !.limit_px = limit_px, !.stop_px = stop_px]
             /\ out' = << >>
             /\ pc' = "price"
     /\ UNCHANGED <<mode, creds, bot, connTest, args>>

\* Menu option 1, market_order_menu, lines 348-352.
MarketInputs ==
  /\ pc = "menu" /\ nActions < MaxActions
  /\ \E symbol \in SymbolTexts, side \in SideTexts, quantity \in NumTexts :
       OrderInputs(Fresh("MARKET", Strip(symbol), Strip(side), Strip(quantity),
                         NoFlag, NoFlag),
                   TRUE, NoneVal, NoneVal)

\* Menu option 2, limit_order_menu, lines 375-387.
LimitInputs ==
  /\ pc = "menu" /\ nActions < MaxActions
  /\ \E symbol \in SymbolTexts, side \in SideTexts, quantity \in NumTexts,
        price \in NumTexts :
       OrderInputs(Fresh("LIMIT", Strip(symbol), Strip(side), Strip(quantity),
                         Strip(price), NoFlag),
                   ParsePrices(<<Strip(price)>>),
                   ParseFloat(Strip(price)).val, NoneVal)

\* Menu option 3, stop_limit_order_menu, lines 410-424.
StopLimitInputs ==
  /\ pc = "menu" /\ nActions < MaxActions
  /\ \E symbol \in SymbolTexts, side \in SideTexts, quantity \in NumTexts,
        stop_price \in NumTexts, limit_price \in NumTexts :
       OrderInputs(Fresh("STOP_LIMIT", Strip(symbol), Strip(side), Strip(quantity),
                         Strip(limit_price), Strip(stop_price)),
                   ParsePrices(<<Strip(stop_price), Strip(limit_price)>>),
                   ParseFloat(Strip(limit_price)).val,
                   ParseFloat(Strip(stop_price)).val)

\* The reference-price fetch of the three order menus and the printed price;
\* an exception ends the menu with the printed error.
FetchPrice ==
  /\ pc = "price"
  /\ \E resp \in TickerResponses :
       LET e == get_current_price(wf.sym, resp)
       IN /\ calls' = calls \o e.calls
          /\ log' = log \o e.log
          /\ IF e.raised
             THEN /\ out' = Append(out, Msg("error", e.err))
                  /\ pc' = "done"
                  /\ wf' = wf
             ELSE /\ out' = Append(out, Msg("price", ""))
                  /\ pc' = "confirm"
                  /\ wf' = [wf EXCEPT !.current_price = e.val]
  /\ UNCHANGED <<mode, creds, bot, connTest, args, confirms, nActions>>

\* An answer test that sends the order unless the answer is "n".
Affirmative_unless_no(confirm) == confirm # "n"

\* An answer test that also lets "yes" through.
Affirmative_yes(confirm) == confirm \in {"y", "yes"}

\* The answer that lets the order through.
Affirmative(confirm) == confirm = "y"

\* The confirmation prompt of the three order menus.
Confirm ==
  /\ pc = "confirm"
  /\ \E answer \in ConfirmTexts :
       LET confirm == Lower(Strip(answer))
       IN /\ wf' = [wf EXCEPT !.answer = answer, !.confirm = confirm]
          /\ confirms' = confirms + 1
          /\ IF Affirmative(confirm)
             THEN /\ pc' = "submit"
                  /\ out' = out
             ELSE /\ pc' = "done"
                  /\ out' = Append(out, Msg("cancelled", ""))
  /\ UNCHANGED <<mode, creds, bot, connTest, args, calls, log, nActions>>

\* The order method the menu of wf.type calls after the confirmation.
MenuOrder(w, resp) ==
  CASE w.type = "MARKET" -> place_market_order(w.sym, w.sd, w.qty, resp)
    [] w.type = "LIMIT" -> place_limit_order(w.sym, w.sd, w.qty, w.limit_px, resp)
    [] OTHER -> place_stop_limit_order(w.sym, w.sd, w.qty, w.stop_px, w.limit_px, resp)

\* A menu that sends the order again when the order method raised.
AfterOrder_retry(raised) == IF raised THEN "submit" ELSE "done"

\* A menu whose error leaves the menu loop instead of returning to it.
AfterOrder_escape(raised) == IF raised THEN "exit" ELSE "done"

\* Where a menu stands after its order method returned or raised.
AfterOrder(raised) == "done"

\* The confirmed order: the order method, then display_order_details, or the
\* printed error when the method raised.
Submit ==
  /\ pc = "submit"
  /\ \E resp \in SubmitResponses :
       LET e == MenuOrder(wf, resp)
       IN /\ calls' = calls \o e.calls
          /\ log' = log \o e.log
          /\ out' = Append(out, IF e.raised THEN Msg("error", e.err)
                                ELSE Msg("details", ""))
          /\ pc' = AfterOrder(e.raised)
  /\ UNCHANGED <<mode, creds, bot, connTest, args, wf, confirms, nActions>>

\* Menu option 4, view_account_menu.
ViewAccount ==
  /\ pc = "menu" /\ nActions < MaxActions
  /\ \E resp \in ReadResponses :
       LET e == get_account_info(resp)
       IN /\ calls' = e.calls
          /\ log' = e.log
          /\ out' = IF e.raised THEN <<Msg("account_error", e.err)>>
                    ELSE <<Msg("account", "")>>
  /\ wf' = [NoWorkflow EXCEPT !.type = "ACCOUNT"]
  /\ confirms' = 0
  /\ nActions' = nActions + 1
  /\ pc' = "done"
  /\ UNCHANGED <<mode, creds, bot, connTest, args>>

\* Menu option 5, view_orders_menu.
ViewOrders ==
  /\ pc = "menu" /\ nActions < MaxActions
  /\ \E resp \in ReadResponses :
       LET e == get_open_orders(resp)
       IN /\ calls' = e.calls
          /\ log' = e.log
          /\ out' = IF e.raised THEN <<Msg("orders_error", e.err)>>
                    ELSE IF e.val = "empty" THEN <<Msg("no_orders", "")>>
                    ELSE <<Msg("orders", "")>>
  /\ wf' = [NoWorkflow EXCEPT !.type = "ORDERS"]
  /\ confirms' = 0
  /\ nActions' = nActions + 1
  /\ pc' = "done"
  /\ UNCHANGED <<mode, creds, bot, connTest, args>>

\* Any other text at the menu prompt.
InvalidOption ==
  /\ pc = "menu" /\ nActions < MaxActions
  /\ \E choice \in ChoiceTexts :
       /\ Strip(choice) \notin {"1", "2", "3", "4", "5", "6"}
       /\ out' = <<Msg("invalid_option", choice)>>
  /\ wf' = NoWorkflow
  /\ calls' = << >>
  /\ log' = << >>
  /\ confirms' = 0
  /\ nActions' = nActions + 1
  /\ pc' = "done"
  /\ UNCHANGED <<mode, creds, bot, connTest, args>>

\* Top of the loop of main_menu: the menu is printed and the choice awaited;
\* the locals of the handler that returned are gone, and calls, out and log
\* start again for the next workflow.
MenuLoop ==
  /\ pc = "done"
  /\ pc' = "menu"
  /\ wf' = NoWorkflow
  /\ calls' = << >>
  /\ out' = << >>
  /\ log' = << >>
  /\ confirms' = 0
  /\ UNCHANGED <<mode, creds, bot, connTest, args, nActions>>

\* Menu option 6.
ExitMenu ==
  /\ pc = "menu"
  /\ out' = <<Msg("goodbye", "")>>
  /\ pc' = "exit"
  /\ UNCHANGED <<mode, creds, bot, connTest, args, wf, calls, log, confirms, nActions>>

Next ==
  \/ Main
  \/ BatchRun
  \/ SetupBot
  \/ MarketInputs
  \/ LimitInputs
  \/ StopLimitInputs
  \/ FetchPrice
  \/ Confirm
  \/ Submit
  \/ ViewAccount
  \/ ViewOrders
  \/ InvalidOption
  \/ MenuLoop
  \/ ExitMenu

Spec == Init /\ [][Next]_vars

\* ================================================================ properties
\* The calls of the current workflow that submit an order.
SubmitCalls == {i \in 1..Len(calls) : calls[i].op = "futures_create_order"}
PriceCalls == {i \in 1..Len(calls) : calls[i].op = "futures_symbol_ticker"}
\* An interactive order menu is running or has just returned.
OrderMenu == mode = "interactive" /\ wf.type \in {"MARKET", "LIMIT", "STOP_LIMIT"}
\* The flag-driven path has run to its end.
BatchEnded == mode = "batch" /\ pc = "exit"
\* The last line printed in the current workflow.
LastOut == IF out = << >> THEN Msg("nothing", "") ELSE out[Len(out)]
Printed(kind) == \E i \in 1..Len(out) : out[i].kind = kind
Logged(rec) == \E i \in 1..Len(log) : log[i] = rec

\* The texts that denote a positive decimal number.
PositiveDecimalTexts == {"0.01", "1", "2", "3"}
\* The numbers that are positive decimals.
PositiveDecimal(x) == x.kind = "num" /\ x.v > 0
\* The texts that are empty, not a number, or a number that is not above zero.
NonPositiveTexts == {"", "abc", "-1", "0"}
\* The texts that match BUY or SELL in any letter case.
SideMatches == {"BUY", "buy", "SELL", "Sell"}

\* C1 (as claimed): a workflow whose quantity or required price is not a
\* positive decimal never calls submit, and once it has ended its last line is
\* an invalid-quantity / invalid-price error (the inputs checked before the
\* numbers being in order).
C1_BadNumberNeverSubmits ==
  /\ (OrderMenu /\ (\/ wf.quantity \notin PositiveDecimalTexts
                    \/ wf.type \in {"LIMIT", "STOP_LIMIT"}
                       /\ wf.price \notin PositiveDecimalTexts
                    \/ wf.type = "STOP_LIMIT"
                       /\ wf.stop_price \notin PositiveDecimalTexts))
     => /\ SubmitCalls = {}
        /\ (pc = "done" /\ wf.symbol # "" /\ wf.side \in SideMatches)
           => LastOut \in {Msg("error", "Invalid quantity format"),
                           Msg("error", "Invalid price format")}
  /\ (BatchEnded /\ (\/ ~PositiveDecimal(args.quantity)
                     \/ args.type \in {"LIMIT", "STOP_LIMIT"}
                        /\ ~PositiveDecimal(args.price)
                     \/ args.type = "STOP_LIMIT"
                        /\ ~PositiveDecimal(args.stop_price)))
     => /\ SubmitCalls = {}
        /\ LastOut.kind \in {"invalid_quantity", "invalid_price", "price_required",
                             "prices_required"}

\* The stop price is on the wrong side of the reference price for the side.
WrongStopSide(side, stop, ref) ==
  \/ side = "BUY" /\ FloatLE(stop, ref)
  \/ side = "SELL" /\ FloatGE(stop, ref)

\* C2 (as claimed): a STOP_LIMIT workflow whose stop price is on the wrong
\* side of the fetched reference price never calls submit, and once it has
\* ended its last line is the stop-direction error.
C2_WrongStopSideNeverSubmits ==
  (OrderMenu /\ wf.type = "STOP_LIMIT" /\ wf.current_price.kind = "num"
   /\ WrongStopSide(wf.sd, wf.stop_px, wf.current_price))
  => /\ SubmitCalls = {}
     /\ pc = "done" => LastOut.kind \in {"stop_above", "stop_below"}

\* C3: in an interactive order menu, an answer to the confirmation prompt
\* other than "y" ends the menu at once with "Order cancelled.", with no
\* submit call and no order details displayed.
C3_DeclineAborts ==
  (OrderMenu /\ confirms > 0 /\ wf.confirm # "y")
  => /\ pc = "done"
     /\ SubmitCalls = {}
     /\ LastOut = Msg("cancelled", "")
     /\ ~Printed("details")

C3_Witness ==
  /\ OrderMenu /\ wf.type = "STOP_LIMIT" /\ confirms = 1 /\ wf.confirm = "n"
  /\ pc = "done" /\ Len(calls) = 1

\* C4 (as claimed): the flag-driven path never asks for confirmation, and a
\* run in which no flag was found missing or misdirected and no price fetch
\* failed has called submit.
C4_BatchSubmitsDirectly ==
  BatchEnded
  => /\ confirms = 0
     /\ \/ \E k \in {"price_required", "prices_required", "stop_above", "stop_below"} :
             Printed(k)
        \/ PriceCalls # {} /\ SubmitCalls = {} /\ LastOut.kind = "error"
        \/ Cardinality(SubmitCalls) = 1

\* C5: a workflow calls submit at most once; it has not called it before the
\* confirmed order is sent, and a menu that ended after the answer "y" has
\* called it exactly once, whatever the exchange answered.
C5_SubmitAtMostOnce ==
  /\ Cardinality(SubmitCalls) <= 1
  /\ pc \in {"price", "confirm", "submit"} => SubmitCalls = {}
  /\ (OrderMenu /\ pc = "done" /\ wf.confirm = "y") => Cardinality(SubmitCalls) = 1

C5_Witness ==
  /\ OrderMenu /\ pc = "done" /\ wf.confirm = "y"
  /\ Cardinality(SubmitCalls) = 1
  /\ LastOut = Msg("error", "timed out")

\* C6 (as claimed): every submit call is preceded in the same workflow by a
\* symbol-info check.
C6_SymbolCheckedBeforeSubmit ==
  \A i \in SubmitCalls : \E j \in 1..(i - 1) : calls[j].op = "futures_exchange_info"

\* The raw input of the running order menu fails one of the validator's
\* rules: empty symbol, side other than BUY/SELL, or a quantity or required
\* price that is unparseable or not above zero.
RawInvalid ==
  \/ wf.symbol = ""
  \/ wf.side \notin SideMatches
  \/ wf.quantity \in NonPositiveTexts
  \/ wf.type \in {"LIMIT", "STOP_LIMIT"} /\ wf.price \in NonPositiveTexts
  \/ wf.type = "STOP_LIMIT" /\ wf.stop_price \in NonPositiveTexts
\* The message of the first rule the raw input fails.
RawError ==
  IF wf.symbol = "" THEN "Symbol is required"
  ELSE IF wf.side \notin SideMatches THEN "Side must be 'BUY' or 'SELL'"
  ELSE IF wf.quantity \in NonPositiveTexts THEN "Invalid quantity format"
  ELSE "Invalid price format"

\* C7: an order menu whose raw input fails validation has ended with exactly
\* the validation error printed, without any call on the exchange client and
\* without a confirmation prompt; a command line that argparse rejects ends
\* the program without any call either.
C7_InvalidInputNoExchangeCall ==
  /\ (OrderMenu /\ RawInvalid)
     => /\ pc = "done"
        /\ calls = << >>
        /\ confirms = 0
        /\ out = <<Msg("error", RawError)>>
  /\ (mode = "none" /\ pc = "exit") => calls = << >> /\ out = <<Msg("usage", "")>>

\* Scenario B: side "buy", quantity "-1".
C7_Witness ==
  /\ OrderMenu /\ wf.type = "LIMIT" /\ wf.symbol = "BTCUSDT" /\ wf.side = "buy"
  /\ wf.quantity = "-1" /\ wf.price = "1"
  /\ pc = "done" /\ out = <<Msg("error", "Invalid quantity format")>>

\* C8: an order menu whose reference-price fetch failed has ended with the
\* error printed: the fetch was its only call on the exchange client, no
\* confirmation was asked, no price was printed and nothing was submitted.
C8_PriceFailureAborts ==
  (OrderMenu /\ Logged(Error("price_error")))
  => /\ pc = "done"
     /\ confirms = 0
     /\ Len(calls) = 1 /\ PriceCalls = {1}
     /\ SubmitCalls = {}
     /\ LastOut \in {Msg("error", r.msg) : r \in {t \in TickerResponses : t.kind # "ok"}}
     /\ ~Printed("price")

C8_Witness ==
  /\ OrderMenu /\ wf.type = "MARKET" /\ Logged(Error("price_error"))
  /\ pc = "done" /\ LastOut = Msg("error", "timed out")

\* C9: the parameters of every submit call are those of the order type for
\* the validated request: MARKET has exactly symbol, side, type and quantity;
\* LIMIT adds price = limit price and timeInForce = GTC; STOP_LIMIT has type
\* STOP, stopPrice = stop price, price = limit price and timeInForce = GTC.
C9_WireParams ==
  LET rq == IF mode = "batch"
            THEN [type |-> args.type, symbol |-> Upper(args.symbol),
                  side |-> Upper(args.side), qty |-> args.quantity,
                  limit |-> args.price, stop |-> args.stop_price]
            ELSE [type |-> wf.type, symbol |-> wf.sym, side |-> wf.sd,
                  qty |-> wf.qty, limit |-> wf.limit_px, stop |-> wf.stop_px]
  IN \A i \in SubmitCalls :
       LET p == calls[i].params
       IN /\ rq.type \in {"MARKET", "LIMIT", "STOP_LIMIT"}
          /\ p.symbol = rq.symbol /\ p.side = rq.side /\ p.quantity = rq.qty
          /\ rq.type = "MARKET"
             => DOMAIN p = {"symbol", "side", "type", "quantity"} /\ p.type = "MARKET"
          /\ rq.type = "LIMIT"
             => /\ DOMAIN p = {"symbol", "side", "type", "quantity", "price",
                               "timeInForce"}
                /\ p.type = "LIMIT" /\ p.price = rq.limit /\ p.timeInForce = "GTC"
          /\ rq.type = "STOP_LIMIT"
             => /\ DOMAIN p = {"symbol", "side", "type", "quantity", "stopPrice",
                               "price", "timeInForce"}
                /\ p.type = "STOP" /\ p.stopPrice = rq.stop /\ p.price = rq.limit
                /\ p.timeInForce = "GTC"

C9_Witness ==
  /\ OrderMenu /\ wf.type = "STOP_LIMIT" /\ wf.stop_price = "2" /\ wf.price = "1"
  /\ SubmitCalls # {}
  /\ \A i \in SubmitCalls : calls[i].params.stopPrice = Num(200)
                            /\ calls[i].params.price = Num(100)

\* The exchange rejections a submit call can raise, with the logged record.
Rejections ==
  {<<r, Error(IF r.kind = "BinanceOrderException" THEN "order_error" ELSE "api_error")>> :
     r \in {x \in SubmitResponses :
              x.kind \in {"BinanceOrderException", "BinanceAPIException"}}}

\* C10: after the exchange rejected the submitted order the menu has ended
\* with the exchange's reason printed as its last line; the submit call is
\* the last call of the workflow (no second submit, no account read) and no
\* order details were displayed.
C10_RejectionEndsWorkflow ==
  \A rj \in Rejections :
    (OrderMenu /\ Logged(rj[2]))
    => /\ pc = "done"
       /\ LastOut = Msg("error", rj[1].msg)
       /\ ~Printed("details")
       /\ Cardinality(SubmitCalls) = 1
       /\ SubmitCalls = {Len(calls)}
       /\ \A i \in 1..Len(calls) : calls[i].op # "futures_account"

\* Scenario D: the exchange answers that the margin is insufficient.
C10_Witness ==
  /\ OrderMenu /\ wf.type = "MARKET" /\ Logged(Error("api_error"))
  /\ LastOut = Msg("error", "Margin is insufficient.")
  /\ pc = "done"

\* A line that reports an error to the operator was printed.
ErrorShown ==
  \E i \in 1..Len(out) : out[i].kind \in {"error", "account_error", "orders_error"}
\* A record of level ERROR was written to the log.
ErrorLogged == \E i \in 1..Len(log) : log[i].level = "ERROR"
\* A menu handler has returned.
HandlerEnded == mode = "interactive" /\ pc = "done" /\ wf.type # NoFlag

\* C11 (as claimed): when a workflow has ended, an error was shown to the
\* operator if and only if an error was written to the log.
C11_ErrorsLoggedAndShown ==
  (HandlerEnded \/ BatchEnded) => (ErrorShown <=> ErrorLogged)

\* main() has chosen between the flag-driven path and the menu and the
\* chosen path has not started.
PathChosen == pc \in {"batch", "setup"}
\* Every flag the order type requires was given on the command line (with a
\* value Python takes as true).
RequiredFlagsPresent ==
  /\ TruthyText(args.symbol) /\ args.side # NoFlag /\ args.type # NoFlag
  /\ TruthyFloat(args.quantity)
  /\ args.type \in {"LIMIT", "STOP_LIMIT"} => TruthyFloat(args.price)
  /\ args.type = "STOP_LIMIT" => TruthyFloat(args.stop_price)

\* C12 (as claimed): with the credentials set in the environment, the
\* flag-driven path is taken if and only if every flag the order type
\* requires is present; otherwise the menu path is taken.
C12_BatchIffRequiredFlags ==
  (PathChosen /\ TruthyText(args.env_key) /\ TruthyText(args.env_secret))
  => (pc = "batch" <=> RequiredFlagsPresent)

\* C12 (amended): the flag-driven path is taken if and only if both
\* credentials are set in the environment and symbol, side, type and quantity
\* are given and truthy (symbol not empty, quantity not zero), whatever the
\* price flags; that path ends the program without the menu; in every other
\* case the menu path (setup, then the menu) is taken.
C12_BatchIffCommonFlags ==
  /\ PathChosen
     => (pc = "batch"
         <=> /\ args.env_key \notin {NoFlag, ""} /\ args.env_secret \notin {NoFlag, ""}
             /\ args.symbol \notin {NoFlag, ""}
             /\ args.side # NoFlag /\ args.type # NoFlag
             /\ args.quantity.kind # "none" /\ args.quantity # Num(0))
  /\ mode = "batch" => pc \in {"batch", "exit"} /\ nActions = 0 /\ confirms = 0
  /\ mode = "interactive" => pc # "batch"

\* A LIMIT invocation without --price took the flag-driven path and ended.
C12_Witness ==
  /\ BatchEnded /\ args.type = "LIMIT" /\ args.price.kind = "none"
  /\ out # << >>

\* setup_bot has read the two credentials.
CredsRead == creds # NoCreds

\* C13: when either credential typed at setup is empty (after trimming) the
\* program has ended with "API credentials are required!": no bot exists, no
\* menu action was taken and the exchange client was never called; the menu
\* loop and every client call have both credentials present; and the
\* flag-driven path is only taken with both credentials set in the
\* environment.
C13_MissingCredentialStops ==
  /\ (CredsRead /\ (creds.api_key = "" \/ creds.api_secret = ""))
     => /\ pc = "exit"
        /\ out = <<Msg("credentials_required", "")>>
        /\ bot = "none"
        /\ calls = << >>
        /\ nActions = 0 /\ wf = NoWorkflow
  /\ (mode = "interactive" /\ (pc \in {"menu", "price", "confirm", "submit", "done"}
                                \/ calls # << >>))
     => creds.api_key \notin {NoFlag, ""} /\ creds.api_secret \notin {NoFlag, ""}
  /\ mode = "batch"
     => args.env_key \notin {NoFlag, ""} /\ args.env_secret \notin {NoFlag, ""}

C13_Witness ==
  /\ CredsRead /\ creds.api_key = "key" /\ creds.api_secret = ""
  /\ pc = "exit" /\ out = <<Msg("credentials_required", "")>>

\* The steps of an order menu that have succeeded so far.
InputsValidated == wf.sym # NoFlag /\ wf.sd # NoFlag /\ ~RawInvalid
PriceFetched ==
  /\ PriceCalls # {}
  /\ wf.current_price.kind = "num"
  /\ Logged(Info("price")) /\ ~Logged(Error("price_error"))
AnsweredYes == confirms = 1 /\ wf.confirm = "y"

\* How a workflow ended: the order displayed; an error printed after the
\* order was sent; or no order sent (error, decline, missing flag).
Acknowledged == Cardinality(SubmitCalls) = 1 /\ LastOut.kind = "details"
Rejected == Cardinality(SubmitCalls) = 1 /\ LastOut.kind = "error"
Aborted ==
  /\ SubmitCalls = {}
  /\ LastOut.kind \in {"error", "cancelled", "price_required", "prices_required",
                       "stop_above", "stop_below"}

\* C14: every submit call comes after a successful validation, then a
\* successful reference-price fetch, then (in a menu) the answer "y", each
\* step being taken only after the one before; and an ended order workflow is
\* in exactly one of Acknowledged, Rejected and Aborted.
C14_StepsInOrder ==
  /\ \A i \in SubmitCalls :
       /\ InputsValidated
       /\ PriceFetched /\ \E j \in PriceCalls : j < i
       /\ mode = "interactive" => AnsweredYes
  /\ pc = "price" => InputsValidated /\ calls = << >> /\ confirms = 0
  /\ pc = "confirm" => InputsValidated /\ PriceFetched /\ confirms = 0 /\ SubmitCalls = {}
  /\ pc = "submit" => InputsValidated /\ PriceFetched /\ AnsweredYes /\ SubmitCalls = {}
  /\ ((HandlerEnded /\ OrderMenu) \/ BatchEnded)
     => /\ Acknowledged \/ Rejected \/ Aborted
        /\ ~(Acknowledged /\ Rejected) /\ ~(Acknowledged /\ Aborted)
        /\ ~(Rejected /\ Aborted)

C14_Witness ==
  /\ HandlerEnded /\ wf.type = "LIMIT" /\ Acknowledged
  /\ Len(calls) = 2 /\ calls[1].op = "futures_symbol_ticker"
  /\ calls[2].op = "futures_create_order"

\* C15: the flag-driven path never gets as far as the exchange client: no bot
\* is built, nothing is logged, no client call (connection test, price fetch,
\* submit) is made, and the run ends with the printed error of the attribute
\* lookup on the parsed arguments.
C15_BatchFailsBeforeClient ==
  mode = "batch"
  => /\ bot = "none" /\ connTest = "none"
     /\ calls = << >>
     /\ log = << >>
     /\ pc = "exit" => out = <<Msg("error", "AttributeError")>>

C15_Witness ==
  /\ BatchEnded /\ args.type = "STOP_LIMIT"
  /\ args.price = Num(200) /\ args.stop_price = Num(300) /\ args.side = "BUY"
  /\ out = <<Msg("error", "AttributeError")>>

\* The line printed for a side that is neither BUY nor SELL.
InvalidSide == Msg("error", "Side must be 'BUY' or 'SELL'")
\* The number a quantity text denotes, in hundredths.
QuantityOf(t) ==
  CASE t = "0.01" -> Num(1) [] t = "1" -> Num(100) [] t = "2" -> Num(200)
    [] OTHER -> NaN

\* C16: in the menus (with a symbol given) a side that matches BUY or SELL in
\* any letter case never ends in the invalid-side error and, the other inputs
\* being valid, is validated to its upper-case form; any other side ends the
\* menu with the invalid-side error and no client call; every submit call
\* carries the upper-cased symbol and side and the parsed quantity; and
\* Scenario A makes exactly the ticker call and one MARKET submit of
\* BTCUSDT / BUY / 0.01, ending Acknowledged when the exchange returns an
\* order.
C16_SideAnyCaseUpperCased ==
  /\ (OrderMenu /\ wf.symbol # "" /\ wf.side \in SideMatches)
     => /\ ~Printed("error") \/ LastOut # InvalidSide
        /\ ~RawInvalid
           => wf.sd = (IF wf.side \in {"BUY", "buy"} THEN "BUY" ELSE "SELL")
  /\ (OrderMenu /\ wf.symbol # "" /\ wf.side \notin SideMatches)
     => pc = "done" /\ out = <<InvalidSide>> /\ calls = << >>
  /\ mode = "interactive"
     => \A i \in SubmitCalls :
          /\ wf.symbol \in {"BTCUSDT", "btcusdt"} /\ calls[i].params.symbol = "BTCUSDT"
          /\ wf.side \in {"BUY", "buy"} => calls[i].params.side = "BUY"
          /\ wf.side \in {"SELL", "Sell"} => calls[i].params.side = "SELL"
          /\ calls[i].params.quantity = QuantityOf(wf.quantity)
  /\ (HandlerEnded /\ wf.type = "MARKET" /\ wf.symbol = "BTCUSDT" /\ wf.side = "BUY"
      /\ wf.quantity = "0.01" /\ AnsweredYes)
     => /\ calls = <<Call("futures_symbol_ticker", [symbol |-> "BTCUSDT"]),
                     Call("futures_create_order",
                          [symbol |-> "BTCUSDT", side |-> "BUY", type |-> "MARKET",
                           quantity |-> Num(1)])>>
        /\ Logged(Info("placed")) => Acknowledged

\* Scenario A, acknowledged.
C16_Witness ==
  /\ HandlerEnded /\ wf.type = "MARKET" /\ wf.symbol = "BTCUSDT" /\ wf.side = "BUY"
  /\ wf.quantity = "0.01" /\ AnsweredYes
  /\ Acknowledged /\ Logged(Info("placed"))

\* C17: the view-account action makes exactly one call, the account read, and
\* the view-open-orders action exactly one call, the open-order listing;
\* neither makes a submit or cancel call; a failed read (an error record in
\* the log) is printed to the operator as the action's error line, a
\* successful one is not, and in both cases the action has returned to the
\* menu loop.
C17_ViewsReadOnce ==
  /\ (mode = "interactive" /\ wf.type = "ACCOUNT")
     => /\ calls = <<Call("futures_account", << >>)>>
        /\ pc = "done"
        /\ Len(out) = 1
        /\ ErrorLogged <=> out[1].kind = "account_error"
        /\ ~ErrorLogged <=> out[1].kind = "account"
  /\ (mode = "interactive" /\ wf.type = "ORDERS")
     => /\ calls = <<Call("futures_get_open_orders", << >>)>>
        /\ pc = "done"
        /\ Len(out) = 1
        /\ ErrorLogged <=> out[1].kind = "orders_error"
        /\ ~ErrorLogged <=> out[1].kind \in {"no_orders", "orders"}
  /\ (mode = "interactive" /\ wf.type \in {"ACCOUNT", "ORDERS"})
     => \A i \in 1..Len(calls) :
          calls[i].op \notin {"futures_create_order", "futures_cancel_order"}

\* The account read failed as the second action of the session and the
\* failure was printed.
C17_Witness ==
  /\ mode = "interactive" /\ wf.type = "ACCOUNT" /\ nActions = 2
  /\ Logged(Error("account_api_error"))
  /\ out = <<Msg("account_error", "Invalid API-key.")>>
  /\ pc = "done"

\* The places of an order menu between its prompts and its return.
InHandler == pc \in {"price", "confirm", "submit"}
\* The menu loop of main_menu has been entered.
LoopEntered == mode = "interactive" /\ bot = "ready"

\* C18: once the menu loop is entered, a running menu action always has a next
\* step and each step stays in the same action or returns to the loop
\* (whatever error it met); a returned action is followed only by the menu;
\* an action starts only at the menu, one at a time; and the loop is left
\* only from the menu, by Exit, with the goodbye line.
C18_MenuLoopContinues ==
  /\ [](LoopEntered /\ InHandler => ENABLED (FetchPrice \/ Confirm \/ Submit))
  /\ [](LoopEntered /\ pc = "done" => ENABLED MenuLoop)
  /\ [][LoopEntered =>
          /\ InHandler
             => /\ pc' \in {"price", "confirm", "submit", "done"}
                /\ wf'.type = wf.type /\ nActions' = nActions
          /\ pc = "done" => pc' = "menu" /\ wf' = NoWorkflow /\ nActions' = nActions
          /\ pc = "menu" => pc' \in {"price", "done", "exit"}
          /\ nActions' # nActions => pc = "menu" /\ nActions' = nActions + 1
          /\ pc' = "exit" => pc = "menu" /\ out' = <<Msg("goodbye", "")>>
     ]_vars

\* The second action of a session was rejected by the exchange and its menu
\* has returned to the loop.
C18_Witness ==
  /\ LoopEntered /\ pc = "done" /\ nActions = 2
  /\ Rejected /\ ErrorLogged

\* The answers that are "y" once trimmed and lower-cased.
YesAnswers == {"y", "Y", " y "}

\* C19: in an interactive order menu, after the confirmation prompt was
\* answered, the answers "y", "Y" and " y " send the menu on to its order
\* method, which makes exactly one submit call; every other answer, the
\* empty one and "yes" included, ends the menu with "Order cancelled." and
\* no submit call.
C19_OnlyYSubmits ==
  (OrderMenu /\ wf.answer # NoFlag)
  => IF wf.answer \in YesAnswers
     THEN /\ ~Printed("cancelled")
          /\ \/ pc = "submit" /\ SubmitCalls = {}
             \/ pc = "done" /\ Cardinality(SubmitCalls) = 1
     ELSE /\ pc = "done"
          /\ SubmitCalls = {}
          /\ LastOut = Msg("cancelled", "")

\* The answer "Y" was followed by a submit call.
C19_Witness ==
  /\ OrderMenu /\ wf.type = "LIMIT" /\ wf.answer = "Y"
  /\ pc = "done" /\ Cardinality(SubmitCalls) = 1

\* C20: when the connection test of the constructor fails, the failure is
\* logged and nothing else happens to the setup: the bot is built, setup_bot
\* prints no failure and returns to main_menu, which enters its loop; from
\* then on the session behaves as any other: at the menu an order menu can
\* be started, and the session ends only by Exit.
C20_FailedConnectionTestContinues ==
  /\ Logged(Error("connect_failed"))
     => /\ mode = "interactive" /\ bot = "ready" /\ connTest = "failed"
        /\ pc = "done" /\ nActions = 0
        /\ out = << >>
        /\ ENABLED MenuLoop
  /\ connTest = "failed"
     => /\ mode = "interactive" /\ bot = "ready"
        /\ pc \in {"done", "menu", "price", "confirm", "submit", "exit"}
        /\ pc = "exit" => out = <<Msg("goodbye", "")>>
        /\ (pc = "menu" /\ nActions < MaxActions)
           => ENABLED MarketInputs /\ ENABLED LimitInputs /\ ENABLED StopLimitInputs

\* On a bot whose connection test failed, a market order was entered,
\* confirmed, sent and acknowledged.
C20_Witness ==
  /\ connTest = "failed" /\ bot = "ready"
  /\ OrderMenu /\ wf.type = "MARKET" /\ pc = "done"
  /\ Acknowledged /\ Logged(Info("placed"))

====
